---- MODULE Spec2Model ----
(***************************************************************************)
(* Model of the upload compression pipeline of cpcon-files (src/server.js): *)
(* compress, compressImage, compressPdf and the POST /upload handler that   *)
(* calls them, over an explicit model of the files on disk.                 *)
(*                                                                          *)
(* Each action is one run of code between two suspension points (await) or  *)
(* one group of synchronous statements of a function.  The external         *)
(* collaborators (the sharp encoder, the ghostscript process) are           *)
(* nondeterministic: their result sizes and their failures are inputs.      *)
(***************************************************************************)
EXTENDS Integers, Sequences, FiniteSets, TLC

(***************************************************************************)
(* Bounds of the model.                                                     *)
(***************************************************************************)
\* File sizes are drawn from budget - Delta .. budget + Delta (bytes).
Delta == 1

\* Candidate sizes of the encoder reach from one byte under the image budget
\* to Above bytes over it.
Above == 2

(***************************************************************************)
(* Program constants.                                                       *)
(***************************************************************************)
IMAGE_MAX_BYTES == 5 * 1024 * 1024
PDF_MAX_BYTES == 20 * 1024 * 1024
OTHER_MAX_BYTES == 20 * 1024 * 1024

\* Extensions are sequences of characters, so that letter case is explicit.
DotJpg == << ".", "j", "p", "g" >>
DotJpeg == << ".", "j", "p", "e", "g" >>
DotPng == << ".", "p", "n", "g" >>
DotWebp == << ".", "w", "e", "b", "p" >>
DotAvif == << ".", "a", "v", "i", "f" >>
DotPdf == << ".", "p", "d", "f" >>
DotZip == << ".", "z", "i", "p" >>
NoExt == << >>

IMAGE_EXTS == {DotJpg, DotJpeg, DotPng, DotWebp, DotAvif}

\* The ladder with its last two rungs exchanged.
passesOutOfOrder ==
  << [width |-> 1920, quality |-> 80],
     [width |-> 1920, quality |-> 65],
     [width |-> 1920, quality |-> 50],
     [width |-> 800,  quality |-> 35],
     [width |-> 1200, quality |-> 40] >>

\* The ladder of compressImage, in order.
passes ==
  << [width |-> 1920, quality |-> 80],
     [width |-> 1920, quality |-> 65],
     [width |-> 1920, quality |-> 50],
     [width |-> 1200, quality |-> 40],
     [width |-> 800,  quality |-> 35] >>

\* `let bestSize = Infinity`: a value every size compares below.
Infinity == -1

\* JavaScript's a < b for a finite size a and b a size or Infinity.
Less(a, b) == IF b = Infinity THEN TRUE ELSE a < b

(***************************************************************************)
(* Paths and files.  A file path is [name, ext]; a path on disk is a file   *)
(* path plus the suffix appended to it ("" for the file path itself).       *)
(***************************************************************************)
Procs == {1, 2}

\* One character of String.prototype.toLowerCase.
LowerChar(c) ==
  CASE c = "A" -> "a" [] c = "B" -> "b" [] c = "C" -> "c" [] c = "D" -> "d"
    [] c = "E" -> "e" [] c = "F" -> "f" [] c = "G" -> "g" [] c = "H" -> "h"
    [] c = "I" -> "i" [] c = "J" -> "j" [] c = "K" -> "k" [] c = "L" -> "l"
    [] c = "M" -> "m" [] c = "N" -> "n" [] c = "O" -> "o" [] c = "P" -> "p"
    [] c = "Q" -> "q" [] c = "R" -> "r" [] c = "S" -> "s" [] c = "T" -> "t"
    [] c = "U" -> "u" [] c = "V" -> "v" [] c = "W" -> "w" [] c = "X" -> "x"
    [] c = "Y" -> "y" [] c = "Z" -> "z"
    [] OTHER -> c

\* The lowercasing left out.
ToLowerCaseMissing(s) == s

\* String.prototype.toLowerCase
ToLowerCase(s) == [i \in 1..Len(s) |-> LowerChar(s[i])]

\* path.extname(filepath)
extname(fp) == fp.ext

\* The characters of a string put together again.
RECURSIVE Join(_)
Join(s) == IF s = << >> THEN "" ELSE Head(s) \o Join(Tail(s))

\* A path on disk is the string `filepath + suffix`: two different files can
\* have the same path when the name of one ends like a suffix of the other.
OnDisk(fp, suf) == fp.name \o Join(fp.ext) \o suf

\* filepath itself
Canon(fp) == OnDisk(fp, "")
\* The candidate written in place, over the file itself.
QTmpInPlace(fp, quality) == OnDisk(fp, "")

\* filepath + `.q${quality}.tmp`
QTmp(fp, quality) == OnDisk(fp, ".q" \o ToString(quality) \o ".tmp")
\* filepath + ".tmp"
ImgTmp(fp) == OnDisk(fp, ".tmp")
\* filepath + ".tmp.pdf"
PdfTmp(fp) == OnDisk(fp, ".tmp.pdf")

\* `let bestTmp = null`
NullPath == OnDisk([name |-> "", ext |-> NoExt], "null")

\* The temporary siblings of a file path.
TmpSiblings(fp) ==
  {QTmp(fp, passes[i].quality) : i \in 1..Len(passes)} \cup {ImgTmp(fp), PdfTmp(fp)}

\* A file: its byte size and where its bytes come from.
File(size, src, by, rung) == [size |-> size, src |-> src, by |-> by, rung |-> rung]

\* sharp's output format
Format(ext) == IF ext = DotPng THEN "png" ELSE "jpeg"

(***************************************************************************)
(* The decisions of the code.                                               *)
(***************************************************************************)
\* The comparison inverted: `size > bestSize`.
IsNewBestInverted(size, best) == IF best = Infinity THEN FALSE ELSE size > best

\* compressImage: `size < bestSize`
IsNewBest(size, best) == Less(size, best)

\* The early exit removed: every rung is always attempted.
StopEarlyNever(size) == FALSE

\* The early exit inverted: stop at the first candidate over the budget.
StopEarlyInverted(size) == size > IMAGE_MAX_BYTES

\* compressImage: `size <= IMAGE_MAX_BYTES` (break)
StopEarly(size) == size <= IMAGE_MAX_BYTES

\* The limit made exclusive: `originalSize >= PDF_MAX_BYTES`.
OriginalTooLargeInclusive(originalSize) == originalSize >= PDF_MAX_BYTES

\* compressPdf, catch branch: `originalSize > PDF_MAX_BYTES`
OriginalTooLarge(originalSize) == originalSize > PDF_MAX_BYTES

\* The comparison inverted: the output is taken when it is larger.
UseCompressedInverted(compressedSize, originalSize) == compressedSize > originalSize

\* The comparison made non-strict: an output of equal size is taken.
UseCompressedNonStrict(compressedSize, originalSize) == compressedSize <= originalSize

\* compressPdf: `compressedSize < originalSize`
UseCompressed(compressedSize, originalSize) == compressedSize < originalSize

\* compressPdf: `finalSize > PDF_MAX_BYTES`
FinalTooLarge(finalSize) == finalSize > PDF_MAX_BYTES

\* The limit made exclusive: `size >= OTHER_MAX_BYTES`.
OtherTooLargeInclusive(size) == size >= OTHER_MAX_BYTES

\* compress: `size > OTHER_MAX_BYTES`
OtherTooLarge(size) == size > OTHER_MAX_BYTES

\* The category compress dispatches on.
Classify(ext) ==
  IF ToLowerCase(ext) \in IMAGE_EXTS THEN "image"
  ELSE IF ToLowerCase(ext) = DotPdf THEN "pdf"
  ELSE "other"

(***************************************************************************)
(* The filesystem: a function from the paths that exist to their files.     *)
(***************************************************************************)
existsSync(f, path) == path \in DOMAIN f

\* The deletion left out: the file stays.
unlinkSyncSkipped(f, path) == f

unlinkSync(f, path) == [x \in DOMAIN f \ {path} |-> f[x]]

writeFile(f, path, file) == [x \in DOMAIN f \cup {path} |-> IF x = path THEN file ELSE f[x]]

renameSync(f, from, to) ==
  [x \in (DOMAIN f \ {from}) \cup {to} |-> IF x = to THEN f[from] ELSE f[x]]

(***************************************************************************)
(* Inputs.                                                                  *)
(***************************************************************************)
SizesAround(budget) == {budget + d : d \in (0 - Delta)..Delta}

\* Extensions of stored files: storage.filename lowercases the extension.
Exts == {DotJpg, DotPng, DotPdf, DotZip, NoExt}

NumPasses == Len(passes)

VARIABLES
  fs,            \* the files on disk
  pc,            \* where each request is
  filepath,      \* req.file.path
  upload,        \* the file multer wrote at filepath
  cand,          \* the size sharp produces at each rung, for this image
  size,          \* compress: size
  rung,          \* compressImage: index of the current pass
  bestSize,      \* compressImage: bestSize
  bestTmp,       \* compressImage: bestTmp
  originalSize,  \* compressPdf: originalSize
  gs,            \* compressPdf: how the ghostscript process ended
  retval,        \* the size compress returned
  err,           \* the error compress raised
  status,        \* the HTTP status of the response
  calls,         \* the external tools each request has run, in order
  lastRename,    \* the request whose rename onto its file path came last
  runs,          \* how many times compress was started for the request
  served,        \* what the static file server sent last
  foreign        \* what other requests did to a request's path during its run

vars == << fs, pc, filepath, upload, cand, size, rung, bestSize, bestTmp,
           originalSize, gs, retval, err, status, calls, lastRename, runs,
           served, foreign >>

\* What the actions of one pipeline never change.
outside == << runs, served, foreign >>

NoRename == 0
NotServed == [path |-> OnDisk([name |-> "", ext |-> << >>], "null"),
              file |-> [size |-> 0, src |-> "none", by |-> 0, rung |-> 0]]
SharpCall(pass) == [tool |-> "sharp", width |-> pass.width, quality |-> pass.quality]
GsCall == [tool |-> "gs", width |-> 0, quality |-> 0]

NoCand == [i \in 1..NumPasses |-> 0]
NoGs == [kind |-> "none", wrote |-> FALSE, size |-> 0]

Set(v, p, x) == [v EXCEPT ![p] = x]

\* The budget of the category of an extension.
Budget(ext) ==
  CASE Classify(ext) = "image" -> IMAGE_MAX_BYTES
    [] Classify(ext) = "pdf"   -> PDF_MAX_BYTES
    [] OTHER                   -> OTHER_MAX_BYTES

\* The candidate sizes the encoder can produce for a file with this extension.
CandInputs(ext) ==
  IF Classify(ext) = "image"
  THEN [1..NumPasses -> (IMAGE_MAX_BYTES - 1)..(IMAGE_MAX_BYTES + Above)]
  ELSE {NoCand}

\* The requests that exist in the single-upload specification.
Running == {1}

(***************************************************************************)
(* The state when multer has written the upload and the handler is about to *)
(* call compress(req.file.path).  Request 1 runs; request 2 does not exist. *)
(***************************************************************************)
Init ==
  \E e \in Exts :
  \E s \in SizesAround(Budget(e)) :
  \E c \in CandInputs(e) :
    LET fp == [name |-> "f", ext |-> e]
        up == File(s, "upload", 1, 0)
    IN /\ filepath = [p \in Procs |-> fp]
       /\ upload = [p \in Procs |-> up]
       /\ cand = [p \in Procs |-> IF p \in Running THEN c ELSE NoCand]
       /\ fs = [x \in {Canon(fp)} |-> up]
       /\ pc = [p \in Procs |-> IF p \in Running THEN "start" ELSE "idle"]
       /\ size = [p \in Procs |-> 0]
       /\ rung = [p \in Procs |-> 0]
       /\ bestSize = [p \in Procs |-> Infinity]
       /\ bestTmp = [p \in Procs |-> NullPath]
       /\ originalSize = [p \in Procs |-> 0]
       /\ gs = [p \in Procs |-> NoGs]
       /\ retval = [p \in Procs |-> 0]
       /\ err = [p \in Procs |-> "none"]
       /\ status = [p \in Procs |-> 0]
       /\ calls = [p \in Procs |-> << >>]
       /\ lastRename = NoRename
       /\ runs = [p \in Procs |-> IF p \in Running THEN 1 ELSE 0]
       /\ served = NotServed
       /\ foreign = [p \in Procs |-> {}]

(***************************************************************************)
(* JavaScript runs to completion between two awaits: while a request is in  *)
(* the middle of a synchronous stretch of its handler, no other request     *)
(* takes a step.                                                            *)
(***************************************************************************)
MidSync == {"start", "img_promote", "pdf_budget", "other_check", "ret", "thrown"}

Turn(p) == \A q \in Procs \ {p} : pc[q] \notin MidSync

\* An exception that leaves compress: it reaches the handler's catch.
Throw(p, e) ==
  /\ pc' = Set(pc, p, "thrown")
  /\ err' = Set(err, p, e)

\* The size of the upload reported, whatever the pipeline stored.
ReturnUploadSize(p, s) ==
  /\ pc' = Set(pc, p, "ret")
  /\ retval' = Set(retval, p, upload[p].size)

\* compress returns a size to the handler.
Return(p, s) ==
  /\ pc' = Set(pc, p, "ret")
  /\ retval' = Set(retval, p, s)

(***************************************************************************)
(* compress(filepath): classification and dispatch (lines 195-209), with    *)
(* the synchronous head of the function it calls.                           *)
(***************************************************************************)
Compress(p) ==
  /\ pc[p] = "start"
  /\ Turn(p)
  /\ LET fp  == filepath[p]
         ext == ToLowerCase(extname(fp))
     IN IF ~existsSync(fs, Canon(fp))
        THEN /\ Throw(p, "ENOENT")
             /\ UNCHANGED << size, rung, bestSize, bestTmp, originalSize, retval >>
        ELSE /\ size' = Set(size, p, fs[Canon(fp)].size)
             /\ UNCHANGED << err, retval >>
             /\ IF ext \in IMAGE_EXTS
                THEN /\ pc' = Set(pc, p, "img_encode")
                     /\ rung' = Set(rung, p, 1)
                     /\ bestSize' = Set(bestSize, p, Infinity)
                     /\ bestTmp' = Set(bestTmp, p, NullPath)
                     /\ UNCHANGED originalSize
                ELSE IF ext = DotPdf
                THEN /\ pc' = Set(pc, p, "pdf_gs")
                     /\ originalSize' = Set(originalSize, p, fs[Canon(fp)].size)
                     /\ UNCHANGED << rung, bestSize, bestTmp >>
                ELSE /\ pc' = Set(pc, p, "other_check")
                     /\ UNCHANGED << rung, bestSize, bestTmp, originalSize >>
  /\ UNCHANGED << calls, lastRename >>
  /\ UNCHANGED outside
  /\ UNCHANGED << fs, filepath, upload, cand, gs, status >>

(***************************************************************************)
(* compressImage, one pass: `await sharp(filepath)...toFile(out)`.  The     *)
(* encoder writes the candidate, or rejects (and may leave a partial file). *)
(***************************************************************************)
ImgEncode(p) ==
  /\ pc[p] = "img_encode"
  /\ Turn(p)
  /\ LET fp  == filepath[p]
         out == QTmp(fp, passes[rung[p]].quality)
     IN \E ok \in BOOLEAN, partial \in BOOLEAN :
          /\ calls' = Set(calls, p, Append(calls[p], SharpCall(passes[rung[p]])))
          /\ IF ok
             THEN /\ ~partial
                  /\ existsSync(fs, Canon(fp))
                  /\ fs' = writeFile(fs, out,
                             File(cand[p][rung[p]], Format(ToLowerCase(extname(fp))), p, rung[p]))
                  /\ pc' = Set(pc, p, "img_compare")
                  /\ UNCHANGED err
             ELSE /\ fs' = IF partial
                           THEN writeFile(fs, out, File(0, "partial", p, rung[p]))
                           ELSE fs
                  /\ Throw(p, "sharp")
  /\ UNCHANGED << lastRename >>
  /\ UNCHANGED outside
  /\ UNCHANGED << filepath, upload, cand, size, rung, bestSize, bestTmp,
                  originalSize, gs, retval, status >>

(***************************************************************************)
(* compressImage, lines 116-128: measure the candidate, keep the smaller of *)
(* it and the best so far, stop when within the budget or out of passes.    *)
(***************************************************************************)
ImgCompare(p) ==
  /\ pc[p] = "img_compare"
  /\ Turn(p)
  /\ LET fp  == filepath[p]
         out == QTmp(fp, passes[rung[p]].quality)
     IN IF ~existsSync(fs, out)
        THEN /\ Throw(p, "ENOENT")
             /\ UNCHANGED << fs, rung, bestSize, bestTmp >>
        ELSE LET sz == fs[out].size
             IN /\ IF IsNewBest(sz, bestSize[p])
                   THEN /\ fs' = IF bestTmp[p] # NullPath /\ existsSync(fs, bestTmp[p])
                                 THEN unlinkSync(fs, bestTmp[p])
                                 ELSE fs
                        /\ bestSize' = Set(bestSize, p, sz)
                        /\ bestTmp' = Set(bestTmp, p, out)
                   ELSE /\ fs' = unlinkSync(fs, out)
                        /\ UNCHANGED << bestSize, bestTmp >>
                /\ IF StopEarly(sz) \/ rung[p] = NumPasses
                   THEN /\ pc' = Set(pc, p, "img_promote")
                        /\ UNCHANGED rung
                   ELSE /\ pc' = Set(pc, p, "img_encode")
                        /\ rung' = Set(rung, p, rung[p] + 1)
                /\ UNCHANGED err
  /\ UNCHANGED << calls, lastRename >>
  /\ UNCHANGED outside
  /\ UNCHANGED << filepath, upload, cand, size, originalSize, gs, retval, status >>

(***************************************************************************)
(* compressImage, lines 131-139: rename the best candidate over the file,   *)
(* remove filepath.tmp, return the size of the file.                        *)
(***************************************************************************)
ImgPromote(p) ==
  /\ pc[p] = "img_promote"
  /\ Turn(p)
  /\ LET fp  == filepath[p]
         tmp == ImgTmp(fp)
     IN IF bestTmp[p] # NullPath /\ ~existsSync(fs, bestTmp[p])
        THEN /\ Throw(p, "ENOENT")
             /\ UNCHANGED << fs, retval, lastRename >>
        ELSE LET fs1 == IF bestTmp[p] # NullPath
                        THEN renameSync(fs, bestTmp[p], Canon(fp))
                        ELSE fs
                 fs2 == IF existsSync(fs1, tmp) THEN unlinkSync(fs1, tmp) ELSE fs1
             IN /\ fs' = fs2
                /\ lastRename' = IF bestTmp[p] # NullPath THEN p ELSE lastRename
                /\ IF existsSync(fs2, Canon(fp))
                   THEN /\ Return(p, fs2[Canon(fp)].size)
                        /\ UNCHANGED err
                   ELSE /\ Throw(p, "ENOENT")
                        /\ UNCHANGED retval
  /\ UNCHANGED << calls >>
  /\ UNCHANGED outside
  /\ UNCHANGED << filepath, upload, cand, size, rung, bestSize, bestTmp,
                  originalSize, gs, status >>

\* The sizes the ghostscript output can have.
GsSizes == SizesAround(PDF_MAX_BYTES)

\* The ways the ghostscript process can end (execFile's promise settles).
GsOutcomes ==
  {[kind |-> "exit0", wrote |-> TRUE, size |-> s] : s \in GsSizes}
    \cup {[kind |-> "exit0", wrote |-> FALSE, size |-> 0]}
    \cup {[kind |-> k, wrote |-> w, size |-> 0] : k \in {"nonzero", "hang"}, w \in BOOLEAN}

(***************************************************************************)
(* compressPdf, lines 150-164: `await execFileAsync("gs", ...)`.  The tool  *)
(* exits 0 (with or without an output file), exits non-zero or crashes, or  *)
(* does not exit on its own (GsTimeout ends it); a run that does not        *)
(* succeed may leave a partial output file.                                 *)
(***************************************************************************)
PdfGs(p) ==
  /\ pc[p] = "pdf_gs"
  /\ Turn(p)
  /\ LET fp  == filepath[p]
         tmp == PdfTmp(fp)
     IN \E o \in GsOutcomes :
          /\ (o.kind = "exit0" /\ o.wrote) => existsSync(fs, Canon(fp))
          /\ gs' = Set(gs, p, o)
          /\ calls' = Set(calls, p, Append(calls[p], GsCall))
          /\ fs' = IF o.wrote
                   THEN writeFile(fs, tmp,
                          File(o.size, IF o.kind = "exit0" THEN "gs" ELSE "partial", p, 0))
                   ELSE fs
          /\ pc' = Set(pc, p, CASE o.kind = "exit0" -> "pdf_compare"
                                 [] o.kind = "hang" -> "pdf_hung"
                                 [] OTHER -> "pdf_catch")
  /\ UNCHANGED << lastRename >>
  /\ UNCHANGED outside
  /\ UNCHANGED << filepath, upload, cand, size, rung, bestSize, bestTmp,
                  originalSize, retval, err, status >>

\* execFile called without a timeout: a process that hangs is never ended.
GsNoTimeout(p) ==
  /\ pc[p] = "pdf_hung"
  /\ FALSE
  /\ UNCHANGED vars

(***************************************************************************)
(* compressPdf, line 164: `{ timeout: GS_TIMEOUT_MS }`.  execFile kills a   *)
(* process that is still running after the timeout and rejects.             *)
(***************************************************************************)
GsTimeout(p) ==
  /\ pc[p] = "pdf_hung"
  /\ Turn(p)
  /\ gs' = Set(gs, p, [gs[p] EXCEPT !.kind = "timeout"])
  /\ pc' = Set(pc, p, "pdf_catch")
  /\ UNCHANGED << fs, filepath, upload, cand, size, rung, bestSize, bestTmp,
                  originalSize, retval, err, status, calls, lastRename >>
  /\ UNCHANGED outside

\* The tool failure answered by a retry: the output is removed and gs is run
\* again.
PdfCatchRetry(p) ==
  /\ pc[p] = "pdf_catch"
  /\ fs' = IF existsSync(fs, PdfTmp(filepath[p]))
           THEN unlinkSync(fs, PdfTmp(filepath[p]))
           ELSE fs
  /\ pc' = Set(pc, p, "pdf_gs")
  /\ UNCHANGED << filepath, upload, cand, size, rung, bestSize, bestTmp,
                  originalSize, gs, retval, err, status, calls, lastRename >>
  /\ UNCHANGED outside

(***************************************************************************)
(* compressPdf, lines 165-174: the tool failed; remove its output and       *)
(* validate the original size only.                                         *)
(***************************************************************************)
PdfCatch(p) ==
  /\ pc[p] = "pdf_catch"
  /\ Turn(p)
  /\ LET fp  == filepath[p]
         tmp == PdfTmp(fp)
         fs1 == IF existsSync(fs, tmp) THEN unlinkSync(fs, tmp) ELSE fs
     IN IF OriginalTooLarge(originalSize[p])
        THEN IF existsSync(fs1, Canon(fp))
             THEN /\ fs' = unlinkSync(fs1, Canon(fp))
                  /\ Throw(p, "TooLarge")
                  /\ UNCHANGED retval
             ELSE /\ fs' = fs1
                  /\ Throw(p, "ENOENT")
                  /\ UNCHANGED retval
        ELSE /\ fs' = fs1
             /\ Return(p, originalSize[p])
             /\ UNCHANGED err
  /\ UNCHANGED << calls, lastRename >>
  /\ UNCHANGED outside
  /\ UNCHANGED << filepath, upload, cand, size, rung, bestSize, bestTmp,
                  originalSize, gs, status >>

(***************************************************************************)
(* compressPdf, lines 176-183: the tool exited 0; take its output if it is  *)
(* smaller than the original, remove it otherwise.                          *)
(***************************************************************************)
PdfCompare(p) ==
  /\ pc[p] = "pdf_compare"
  /\ Turn(p)
  /\ LET fp  == filepath[p]
         tmp == PdfTmp(fp)
         compressedSize == IF existsSync(fs, tmp) THEN fs[tmp].size ELSE originalSize[p]
     IN IF existsSync(fs, tmp)
        THEN /\ fs' = IF UseCompressed(compressedSize, originalSize[p])
                      THEN renameSync(fs, tmp, Canon(fp))
                      ELSE unlinkSync(fs, tmp)
             /\ lastRename' = IF UseCompressed(compressedSize, originalSize[p])
                              THEN p
                              ELSE lastRename
             /\ pc' = Set(pc, p, "pdf_budget")
             /\ UNCHANGED err
        ELSE \* renameSync and unlinkSync of a missing path both throw
             /\ fs' = fs
             /\ Throw(p, "ENOENT")
             /\ UNCHANGED lastRename
  /\ UNCHANGED << calls >>
  /\ UNCHANGED outside
  /\ UNCHANGED << filepath, upload, cand, size, rung, bestSize, bestTmp,
                  originalSize, gs, retval, status >>

(***************************************************************************)
(* compressPdf, lines 185-191: enforce the PDF budget on the file kept.     *)
(***************************************************************************)
PdfBudget(p) ==
  /\ pc[p] = "pdf_budget"
  /\ Turn(p)
  /\ LET fp == filepath[p]
     IN IF ~existsSync(fs, Canon(fp))
        THEN /\ fs' = fs
             /\ Throw(p, "ENOENT")
             /\ UNCHANGED retval
        ELSE LET finalSize == fs[Canon(fp)].size
             IN IF FinalTooLarge(finalSize)
                THEN /\ fs' = unlinkSync(fs, Canon(fp))
                     /\ Throw(p, "TooLarge")
                     /\ UNCHANGED retval
                ELSE /\ fs' = fs
                     /\ Return(p, finalSize)
                     /\ UNCHANGED err
  /\ UNCHANGED << calls, lastRename >>
  /\ UNCHANGED outside
  /\ UNCHANGED << filepath, upload, cand, size, rung, bestSize, bestTmp,
                  originalSize, gs, status >>

(***************************************************************************)
(* compress, lines 211-217: the other types are only checked against the    *)
(* limit.                                                                   *)
(***************************************************************************)
OtherCheck(p) ==
  /\ pc[p] = "other_check"
  /\ Turn(p)
  /\ LET fp == filepath[p]
     IN IF OtherTooLarge(size[p])
        THEN IF existsSync(fs, Canon(fp))
             THEN /\ fs' = unlinkSync(fs, Canon(fp))
                  /\ Throw(p, "TooLarge")
                  /\ UNCHANGED retval
             ELSE /\ fs' = fs
                  /\ Throw(p, "ENOENT")
                  /\ UNCHANGED retval
        ELSE /\ fs' = fs
             /\ Return(p, size[p])
             /\ UNCHANGED err
  /\ UNCHANGED << calls, lastRename >>
  /\ UNCHANGED outside
  /\ UNCHANGED << filepath, upload, cand, size, rung, bestSize, bestTmp,
                  originalSize, gs, status >>

(***************************************************************************)
(* POST /upload, lines 229-250: answer 200 with the size, or 400 with the   *)
(* message of the error caught.  The catch does not touch the disk.         *)
(***************************************************************************)
Respond(p) ==
  /\ pc[p] \in {"ret", "thrown"}
  /\ Turn(p)
  /\ status' = Set(status, p, IF pc[p] = "ret" THEN 200 ELSE 400)
  /\ pc' = Set(pc, p, "done")
  /\ UNCHANGED << calls, lastRename >>
  /\ UNCHANGED outside
  /\ UNCHANGED << fs, filepath, upload, cand, size, rung, bestSize, bestTmp,
                  originalSize, gs, retval, err >>

Next ==
  \E p \in Procs :
    \/ Compress(p)
    \/ ImgEncode(p)
    \/ ImgCompare(p)
    \/ ImgPromote(p)
    \/ PdfGs(p)
    \/ GsTimeout(p)
    \/ PdfCatch(p)
    \/ PdfCompare(p)
    \/ PdfBudget(p)
    \/ OtherCheck(p)
    \/ Respond(p)

Spec == Init /\ [][Next]_vars

(***************************************************************************)
(* The same with the scheduling of the runtime: a continuation that is      *)
(* ready runs, an encoder pass ends (with a result or an error), the tool   *)
(* exits or the timer of execFile fires.                                    *)
(***************************************************************************)
SpecFair == Spec /\ WF_vars(Next)

(***************************************************************************)
(* compress called on a path with an extension in any letter case: the      *)
(* classification alone.                                                    *)
(***************************************************************************)
UpperChar(c) ==
  CASE c = "a" -> "A" [] c = "b" -> "B" [] c = "c" -> "C" [] c = "d" -> "D"
    [] c = "e" -> "E" [] c = "f" -> "F" [] c = "g" -> "G" [] c = "h" -> "H"
    [] c = "i" -> "I" [] c = "j" -> "J" [] c = "k" -> "K" [] c = "l" -> "L"
    [] c = "m" -> "M" [] c = "n" -> "N" [] c = "o" -> "O" [] c = "p" -> "P"
    [] c = "q" -> "Q" [] c = "r" -> "R" [] c = "s" -> "S" [] c = "t" -> "T"
    [] c = "u" -> "U" [] c = "v" -> "V" [] c = "w" -> "W" [] c = "x" -> "X"
    [] c = "y" -> "Y" [] c = "z" -> "Z"
    [] OTHER -> c

\* The spellings of an extension in every letter case.
RECURSIVE CaseVariants(_)
CaseVariants(e) ==
  IF e = << >>
  THEN {<< >>}
  ELSE {<< c >> \o v : c \in {Head(e), UpperChar(Head(e))}, v \in CaseVariants(Tail(e))}

\* Extensions that are none of the listed ones.
UnlistedExts ==
  {DotZip, NoExt, << ".", "g", "i", "f" >>, << ".", "j", "p", "e" >>,
   << ".", "p", "d", "f", "a" >>, << ".", "j", "p", "g", "2" >>, << ".", "t", "m", "p" >>}

AnyCaseExts ==
  UNION {CaseVariants(e) : e \in IMAGE_EXTS \cup {DotPdf} \cup UnlistedExts}

InitClassify ==
  \E e \in AnyCaseExts :
  \E s \in SizesAround(Budget(e)) :
    LET fp == [name |-> "f", ext |-> e]
        up == File(s, "upload", 1, 0)
    IN /\ filepath = [p \in Procs |-> fp]
       /\ upload = [p \in Procs |-> up]
       /\ cand = [p \in Procs |-> NoCand]
       /\ fs = [x \in {Canon(fp)} |-> up]
       /\ pc = [p \in Procs |-> IF p \in Running THEN "start" ELSE "idle"]
       /\ size = [p \in Procs |-> 0]
       /\ rung = [p \in Procs |-> 0]
       /\ bestSize = [p \in Procs |-> Infinity]
       /\ bestTmp = [p \in Procs |-> NullPath]
       /\ originalSize = [p \in Procs |-> 0]
       /\ gs = [p \in Procs |-> NoGs]
       /\ retval = [p \in Procs |-> 0]
       /\ err = [p \in Procs |-> "none"]
       /\ status = [p \in Procs |-> 0]
       /\ calls = [p \in Procs |-> << >>]
       /\ lastRename = NoRename
       /\ runs = [p \in Procs |-> IF p \in Running THEN 1 ELSE 0]
       /\ served = NotServed
       /\ foreign = [p \in Procs |-> {}]

NextClassify == \E p \in Procs : Compress(p)

SpecClassify == InitClassify /\ [][NextClassify]_vars

(***************************************************************************)
(* Two uploads that storage.filename gives the same name (the deterministic *)
(* `${idCurso}-${idDisciplina}-${idProfessor}-${slug}${ext}` or the slug in *)
(* a subfolder), hence the same file path.  Request 1 has its file on disk  *)
(* and is about to call compress; request 2 is arriving.  multer writes the *)
(* incoming bytes straight to the file path.                                *)
(***************************************************************************)
\* The pipeline of request p is running on its path.
Active(p) ==
  pc[p] \in {"img_encode", "img_compare", "img_promote", "pdf_gs", "pdf_hung",
             "pdf_catch", "pdf_compare", "pdf_budget", "other_check"}

\* Another request touches the path `path` in the way `how`.
Touch(path, how, by) ==
  [p \in Procs |->
     IF p # by /\ Active(p) /\ Canon(filepath[p]) = path
     THEN foreign[p] \cup {how}
     ELSE foreign[p]]

\* Encoder results used when two requests race: one pass, or all five.
RaceCands(ext) ==
  IF Classify(ext) = "image"
  THEN {[i \in 1..NumPasses |-> IMAGE_MAX_BYTES],
        [i \in 1..NumPasses |-> IMAGE_MAX_BYTES + Above]}
  ELSE {NoCand}

RaceExts == {DotJpg, DotPdf, DotZip}

InitRace ==
  \E e \in RaceExts :
  \E s1 \in {Budget(e), Budget(e) + Delta}, s2 \in {Budget(e), Budget(e) + Delta} :
  \E c1 \in RaceCands(e), c2 \in RaceCands(e) :
    LET fp == [name |-> "f", ext |-> e]
    IN /\ filepath = [p \in Procs |-> fp]
       /\ upload = [p \in Procs |-> File(IF p \in Running THEN s1 ELSE s2, "upload", p, 0)]
       /\ cand = [p \in Procs |-> IF p \in Running THEN c1 ELSE c2]
       /\ fs = [x \in {Canon(fp)} |-> File(s1, "upload", 1, 0)]
       /\ pc = [p \in Procs |-> IF p \in Running THEN "start" ELSE "arriving"]
       /\ size = [p \in Procs |-> 0]
       /\ rung = [p \in Procs |-> 0]
       /\ bestSize = [p \in Procs |-> Infinity]
       /\ bestTmp = [p \in Procs |-> NullPath]
       /\ originalSize = [p \in Procs |-> 0]
       /\ gs = [p \in Procs |-> NoGs]
       /\ retval = [p \in Procs |-> 0]
       /\ err = [p \in Procs |-> "none"]
       /\ status = [p \in Procs |-> 0]
       /\ calls = [p \in Procs |-> << >>]
       /\ lastRename = NoRename
       /\ runs = [p \in Procs |-> IF p \in Running THEN 1 ELSE 0]
       /\ served = NotServed
       /\ foreign = [p \in Procs |-> {}]

\* multer opens the write stream at the file path: what was there is truncated.
UploadBegin(p) ==
  /\ pc[p] = "arriving"
  /\ Turn(p)
  /\ fs' = writeFile(fs, Canon(filepath[p]), File(0, "partial", p, 0))
  /\ pc' = Set(pc, p, "uploading")
  /\ foreign' = Touch(Canon(filepath[p]), "upload", p)
  /\ UNCHANGED << filepath, upload, cand, size, rung, bestSize, bestTmp,
                  originalSize, gs, retval, err, status, calls, lastRename,
                  runs, served >>

\* The stream is complete and the handler's callback is about to run.
UploadEnd(p) ==
  /\ pc[p] = "uploading"
  /\ Turn(p)
  /\ fs' = writeFile(fs, Canon(filepath[p]), upload[p])
  /\ pc' = Set(pc, p, "start")
  /\ foreign' = Touch(Canon(filepath[p]), "upload", p)
  /\ runs' = Set(runs, p, 1)
  /\ UNCHANGED << filepath, upload, cand, size, rung, bestSize, bestTmp,
                  originalSize, gs, retval, err, status, calls, lastRename,
                  served >>

NextRace ==
  \E p \in Procs :
    \/ Compress(p)
    \/ ImgEncode(p)
    \/ ImgCompare(p)
    \/ ImgPromote(p)
    \/ PdfGs(p)
    \/ GsTimeout(p)
    \/ PdfCatch(p)
    \/ PdfCompare(p)
    \/ PdfBudget(p)
    \/ OtherCheck(p)
    \/ Respond(p)
    \/ UploadBegin(p)
    \/ UploadEnd(p)

SpecRace == InitRace /\ [][NextRace]_vars

(***************************************************************************)
(* Two uploads stored under different names in the same directory.  The     *)
(* name of the second comes from storage.filename like any other: slugify   *)
(* keeps dots, so an upload called "f.pdf.tmp.pdf" is stored under that     *)
(* name, beside "f.pdf".                                                    *)
(***************************************************************************)
\* The names the second upload is stored under, given the first.
ApartPaths(fp) ==
  {[name |-> "g", ext |-> e] : e \in RaceExts}
    \cup {[name |-> fp.name \o Join(fp.ext) \o ".tmp", ext |-> DotPdf]}

InitApart ==
  \E e \in RaceExts :
  \E fp2 \in ApartPaths([name |-> "f", ext |-> e]) :
  \E s1 \in {Budget(e), Budget(e) + Delta} :
  \E s2 \in {Budget(fp2.ext), Budget(fp2.ext) + Delta} :
  \E c1 \in RaceCands(e), c2 \in RaceCands(fp2.ext) :
    LET fp == [name |-> "f", ext |-> e]
    IN /\ filepath = [p \in Procs |-> IF p \in Running THEN fp ELSE fp2]
       /\ upload = [p \in Procs |-> File(IF p \in Running THEN s1 ELSE s2, "upload", p, 0)]
       /\ cand = [p \in Procs |-> IF p \in Running THEN c1 ELSE c2]
       /\ fs = [x \in {Canon(fp)} |-> File(s1, "upload", 1, 0)]
       /\ pc = [p \in Procs |-> IF p \in Running THEN "start" ELSE "arriving"]
       /\ size = [p \in Procs |-> 0]
       /\ rung = [p \in Procs |-> 0]
       /\ bestSize = [p \in Procs |-> Infinity]
       /\ bestTmp = [p \in Procs |-> NullPath]
       /\ originalSize = [p \in Procs |-> 0]
       /\ gs = [p \in Procs |-> NoGs]
       /\ retval = [p \in Procs |-> 0]
       /\ err = [p \in Procs |-> "none"]
       /\ status = [p \in Procs |-> 0]
       /\ calls = [p \in Procs |-> << >>]
       /\ lastRename = NoRename
       /\ runs = [p \in Procs |-> IF p \in Running THEN 1 ELSE 0]
       /\ served = NotServed
       /\ foreign = [p \in Procs |-> {}]

SpecApart == InitApart /\ [][NextRace]_vars

(***************************************************************************)
(* The other routes of the service, running beside the uploads.  Both are   *)
(* synchronous handlers (express.static answers from the file as it is when *)
(* the request is handled); neither consults the running pipelines.         *)
(***************************************************************************)
\* DELETE /files/*: removes whatever file exists at the path it is given.
DeleteFile ==
  \E x \in DOMAIN fs :
  /\ Turn(0)
  /\ existsSync(fs, x)
  /\ fs' = unlinkSync(fs, x)
  /\ foreign' = Touch(x, "delete", 0)
  /\ UNCHANGED << pc, filepath, upload, cand, size, rung, bestSize, bestTmp,
                  originalSize, gs, retval, err, status, calls, lastRename,
                  runs, served >>

\* GET /files/...: sends the file that is at the path, whatever wrote it.
\* One download is followed per behaviour.
StaticGet ==
  \E x \in DOMAIN fs :
  /\ Turn(0)
  /\ served = NotServed
  /\ existsSync(fs, x)
  /\ served' = [path |-> x, file |-> fs[x]]
  /\ foreign' = Touch(x, "read", 0)
  /\ UNCHANGED << fs, pc, filepath, upload, cand, size, rung, bestSize, bestTmp,
                  originalSize, gs, retval, err, status, calls, lastRename,
                  runs >>

NextServer ==
  \/ NextRace
  \/ DeleteFile
  \/ StaticGet

\* The two uploads carry the same bytes, and an image takes a single pass.
InitServer ==
  /\ InitRace
  /\ \A p \in Procs : upload[p].size = upload[1].size
  /\ \A p \in Procs : \A i \in 1..NumPasses :
       cand[p] # NoCand => cand[p][i] = IMAGE_MAX_BYTES

SpecServer == InitServer /\ [][NextServer]_vars

(***************************************************************************)
(* A second run of the pipeline on its own output: compress is called again *)
(* on the path where a successful run left its file.  The encoder results   *)
(* of the new run are new inputs (the file it reads is another one); each   *)
(* is either exactly the image budget or the largest size over it.          *)
(***************************************************************************)
RerunCands(ext) ==
  IF Classify(ext) = "image"
  THEN [1..NumPasses -> {IMAGE_MAX_BYTES, IMAGE_MAX_BYTES + Above}]
  ELSE {NoCand}

Rerun(p) ==
  /\ pc[p] = "done"
  /\ status[p] = 200
  /\ runs[p] = 1
  /\ existsSync(fs, Canon(filepath[p]))
  /\ \E c \in RerunCands(extname(filepath[p])) : cand' = Set(cand, p, c)
  /\ upload' = Set(upload, p, fs[Canon(filepath[p])])
  /\ runs' = Set(runs, p, runs[p] + 1)
  /\ pc' = Set(pc, p, "start")
  /\ size' = Set(size, p, 0)
  /\ rung' = Set(rung, p, 0)
  /\ bestSize' = Set(bestSize, p, Infinity)
  /\ bestTmp' = Set(bestTmp, p, NullPath)
  /\ originalSize' = Set(originalSize, p, 0)
  /\ gs' = Set(gs, p, NoGs)
  /\ retval' = Set(retval, p, 0)
  /\ err' = Set(err, p, "none")
  /\ status' = Set(status, p, 0)
  /\ calls' = Set(calls, p, << >>)
  /\ UNCHANGED << fs, filepath, lastRename, served, foreign >>

NextRerun ==
  \E p \in Procs :
    \/ Compress(p)
    \/ ImgEncode(p)
    \/ ImgCompare(p)
    \/ ImgPromote(p)
    \/ PdfGs(p)
    \/ GsTimeout(p)
    \/ PdfCatch(p)
    \/ PdfCompare(p)
    \/ PdfBudget(p)
    \/ OtherCheck(p)
    \/ Respond(p)
    \/ Rerun(p)

SpecRerun == Init /\ [][NextRerun]_vars

(***************************************************************************)
(* Vocabulary of the properties.                                            *)
(***************************************************************************)
\* The category of request p's file.
Cat(p) == Classify(extname(filepath[p]))

\* compress has just returned or raised, or the response has been sent.
Returned(p) == pc[p] = "ret" \/ (pc[p] = "done" /\ status[p] = 200)
Raised(p) == pc[p] = "thrown" \/ (pc[p] = "done" /\ status[p] = 400)
Completed(p) == Returned(p) \/ Raised(p)

\* The file at request p's path, when there is one.
Stored(p) == fs[Canon(filepath[p])]
HasFile(p) == existsSync(fs, Canon(filepath[p]))

TypeOK ==
  /\ pc \in [Procs -> {"idle", "arriving", "uploading", "start", "img_encode", "img_compare", "img_promote",
                       "pdf_gs", "pdf_hung", "pdf_catch", "pdf_compare", "pdf_budget",
                       "other_check", "ret", "thrown", "done"}]
  /\ \A p \in Procs : rung[p] \in 0..NumPasses
  /\ \A x \in DOMAIN fs : fs[x].size \in Nat

SetMin(S) == CHOOSE x \in S : \A y \in S : x <= y

\* The candidate sizes of the rungs 1..n of request p's image.
CandSizes(p, n) == {cand[p][i] : i \in 1..n}

NoTmpLeft(p) == \A t \in TmpSiblings(filepath[p]) : ~existsSync(fs, t)

(***************************************************************************)
(* C1.  Whenever compress ends by raising an error, for any category and    *)
(* any cause, the file at filePath no longer exists when the error reaches  *)
(* the caller.                                                              *)
(***************************************************************************)
C1_FailureDeletesInput ==
  \A p \in Procs : Raised(p) => ~HasFile(p)

(***************************************************************************)
(* C2.  After a pipeline run has completed, by a returned size or by an     *)
(* error, no temporary sibling of filePath exists on disk.                  *)
(***************************************************************************)
C2_NoTmpAfterCompletion ==
  \A p \in Procs : Completed(p) => NoTmpLeft(p)

(***************************************************************************)
(* C3.  If compressPdf returns successfully, whatever the tool did, the     *)
(* file at the canonical path is no larger than the file was when the       *)
(* pipeline started.                                                        *)
(***************************************************************************)
C3_PdfNeverGrows ==
  \A p \in Procs :
    (Cat(p) = "pdf" /\ Returned(p)) =>
      /\ HasFile(p)
      /\ Stored(p).size <= upload[p].size

\* A PDF run that returned after the tool produced a larger output.
C3_Witness ==
  \E p \in Procs :
    /\ Cat(p) = "pdf" /\ Returned(p)
    /\ gs[p].kind = "exit0" /\ gs[p].wrote /\ gs[p].size > upload[p].size

(***************************************************************************)
(* C4.  Whenever compress returns for a pdf or other file, the stored file  *)
(* is at most the category budget (a size equal to the budget is accepted); *)
(* a PDF whose retained file exceeds the budget is deleted and a failure is *)
(* raised: after completion no pdf/other file over its budget is on disk.   *)
(***************************************************************************)
C4_AcceptedWithinBudget ==
  \A p \in Procs :
    (Cat(p) \in {"pdf", "other"} /\ Completed(p)) =>
      /\ Returned(p) => HasFile(p)
      /\ HasFile(p) => Stored(p).size <= Budget(extname(filepath[p]))
      /\ (HasFile(p) /\ Stored(p).size = Budget(extname(filepath[p]))) => Returned(p)

(***************************************************************************)
(* C5.  Throughout the loop of compressImage bestSize is the minimum of the *)
(* candidate sizes seen so far; when compressImage returns, the file at the *)
(* canonical path is a candidate of minimal size among the rungs attempted  *)
(* and the returned size is that minimum.                                   *)
(***************************************************************************)
C5_BestIsMinimum ==
  \A p \in Procs :
    Cat(p) = "image" =>
      /\ (pc[p] \in {"img_encode", "img_compare"} /\ rung[p] > 1) =>
            bestSize[p] = SetMin(CandSizes(p, rung[p] - 1))
      /\ (pc[p] \in {"img_encode", "img_compare"} /\ rung[p] = 1) =>
            bestSize[p] = Infinity
      /\ pc[p] = "img_promote" => bestSize[p] = SetMin(CandSizes(p, rung[p]))
      /\ Returned(p) =>
            /\ HasFile(p)
            /\ Stored(p).src = Format(extname(filepath[p]))
            /\ Stored(p).rung \in 1..rung[p]
            /\ Stored(p).size = cand[p][Stored(p).rung]
            /\ Stored(p).size = SetMin(CandSizes(p, rung[p]))
            /\ retval[p] = SetMin(CandSizes(p, rung[p]))

\* An image run that returned after all rungs, the best being the second
\* candidate and every later candidate larger.
C5_Witness ==
  \E p \in Procs :
    /\ Cat(p) = "image" /\ Returned(p)
    /\ rung[p] = NumPasses
    /\ Stored(p).rung = 2
    /\ \A i \in 3..NumPasses : cand[p][i] > cand[p][2]

(***************************************************************************)
(* C6.  For every assignment of candidate sizes to the five rungs: if some  *)
(* rung produces a candidate at or under the image budget, the file stored  *)
(* by compressImage is at or under the budget; otherwise the stored file is *)
(* the smallest candidate over all five rungs.                              *)
(***************************************************************************)
C6_BudgetIfAchievable ==
  \A p \in Procs :
    (Cat(p) = "image" /\ Returned(p)) =>
      IF \E i \in 1..NumPasses : cand[p][i] <= IMAGE_MAX_BYTES
      THEN HasFile(p) /\ Stored(p).size <= IMAGE_MAX_BYTES
      ELSE /\ HasFile(p)
           /\ Stored(p).src = Format(extname(filepath[p]))
           /\ Stored(p).size = SetMin(CandSizes(p, NumPasses))

\* An image whose first two candidates are over budget and whose third is
\* within it, after compressImage returned.
C6_Witness ==
  \E p \in Procs :
    /\ Cat(p) = "image" /\ Returned(p)
    /\ cand[p][1] > IMAGE_MAX_BYTES
    /\ cand[p][2] > IMAGE_MAX_BYTES
    /\ cand[p][3] <= IMAGE_MAX_BYTES

(***************************************************************************)
(* C7.  compressImage has no hard failure mode: every image run returns a   *)
(* size, raises no error and keeps the file; when all five candidates are   *)
(* above the budget the returned size is above the budget.                  *)
(***************************************************************************)
C7_ImageNeverFails ==
  \A p \in Procs :
    (Cat(p) = "image" /\ Completed(p)) =>
      /\ Returned(p)
      /\ HasFile(p)
      /\ (\A i \in 1..NumPasses : cand[p][i] > IMAGE_MAX_BYTES) =>
            retval[p] > IMAGE_MAX_BYTES

(***************************************************************************)
(* C8.  When the external PDF tool fails (non-zero exit, timeout, crash),   *)
(* compressPdf removes the partial output and falls back to the original:   *)
(* over the budget, the original is deleted and a failure raised; otherwise *)
(* the original stays unchanged and its size is returned.                   *)
(***************************************************************************)
C8_ToolFailureFallsBack ==
  \A p \in Procs :
    (Cat(p) = "pdf" /\ gs[p].kind \in {"nonzero", "timeout"} /\ Completed(p)) =>
      /\ ~existsSync(fs, PdfTmp(filepath[p]))
      /\ IF upload[p].size > PDF_MAX_BYTES
         THEN Raised(p) /\ err[p] = "TooLarge" /\ ~HasFile(p)
         ELSE /\ Returned(p)
              /\ HasFile(p)
              /\ Stored(p) = upload[p]
              /\ retval[p] = upload[p].size

\* The tool timed out leaving a partial output, the original is exactly at
\* the budget, and compressPdf returned.
C8_Witness ==
  \E p \in Procs :
    /\ Cat(p) = "pdf" /\ Returned(p)
    /\ gs[p].kind = "timeout" /\ gs[p].wrote
    /\ upload[p].size = PDF_MAX_BYTES

(***************************************************************************)
(* C9.  When the external PDF tool succeeds, the original is replaced by    *)
(* the optimized output if and only if the optimized size is strictly       *)
(* smaller than the original size; otherwise the output is discarded and    *)
(* the original stays unchanged at the canonical path.                      *)
(***************************************************************************)
C9_ReplaceIffSmaller ==
  \A p \in Procs :
    (Cat(p) = "pdf" /\ gs[p].kind = "exit0"
       /\ (pc[p] = "pdf_budget" \/ Completed(p))) =>
      /\ (pc[p] = "pdf_budget" \/ err[p] = "ENOENT") => HasFile(p)
      /\ ~existsSync(fs, PdfTmp(filepath[p]))
      /\ HasFile(p) =>
            IF gs[p].wrote /\ gs[p].size < upload[p].size
            THEN Stored(p) = File(gs[p].size, "gs", p, 0)
            ELSE Stored(p) = upload[p]

\* The tool succeeded with an output of exactly the original size, and the
\* comparison has been made.
C9_Witness ==
  \E p \in Procs :
    /\ Cat(p) = "pdf" /\ pc[p] = "pdf_budget"
    /\ gs[p].kind = "exit0" /\ gs[p].wrote
    /\ gs[p].size = upload[p].size

(***************************************************************************)
(* C10.  For a file of category other, compress transforms nothing: over    *)
(* the budget the file is deleted and a failure raised at once; otherwise   *)
(* the file is unchanged, no temporary file is ever created and the         *)
(* original size is returned.                                               *)
(***************************************************************************)
C10_OtherPassFail ==
  \A p \in Procs :
    (Cat(p) = "other" /\ pc[p] # "idle") =>
      /\ NoTmpLeft(p)
      /\ pc[p] \in {"start", "other_check", "ret", "thrown", "done"}
      /\ HasFile(p) => Stored(p) = upload[p]
      /\ Completed(p) =>
            IF upload[p].size > OTHER_MAX_BYTES
            THEN Raised(p) /\ err[p] = "TooLarge" /\ ~HasFile(p)
            ELSE Returned(p) /\ HasFile(p) /\ retval[p] = upload[p].size

\* A file of category other over its budget, rejected.
C10_Witness ==
  \E p \in Procs :
    /\ Cat(p) = "other" /\ Raised(p)
    /\ upload[p].size > OTHER_MAX_BYTES

(***************************************************************************)
(* C11.  Re-running compress on the file a previous successful run left at  *)
(* the same path ends with a stored file that is not larger than the file   *)
(* the previous run left, for every category.                               *)
(***************************************************************************)
C11_RerunNeverGrows ==
  \A p \in Procs :
    (runs[p] >= 2 /\ Completed(p)) =>
      /\ HasFile(p)
      /\ Stored(p).size <= upload[p].size

(***************************************************************************)
(* C12.  During a pipeline run the canonical path always holds a complete   *)
(* file: the upload stays untouched while candidates are staged at          *)
(* temporary sibling paths, and the content at the canonical path changes   *)
(* at most once, by one rename of a fully written temporary file, or        *)
(* disappears by deletion when the run fails.                               *)
(***************************************************************************)
Staging(p) ==
  pc[p] \in {"start", "img_encode", "img_compare", "img_promote",
             "pdf_gs", "pdf_hung", "pdf_catch", "pdf_compare", "other_check"}

C12_CompleteFile(p) ==
  /\ Staging(p) => (HasFile(p) /\ Stored(p) = upload[p])
  /\ HasFile(p) => Stored(p).src \in {"upload", "jpeg", "png", "gs"}

C12_ReplaceStep(p) ==
  LET c == Canon(filepath[p])
  IN /\ (c \in DOMAIN fs /\ c \in DOMAIN fs' /\ fs'[c] # fs[c]) =>
          /\ fs[c] = upload[p]
          /\ \E t \in TmpSiblings(filepath[p]) :
               /\ t \in DOMAIN fs
               /\ t \notin DOMAIN fs'
               /\ fs[t].src # "partial"
               /\ fs'[c] = fs[t]
     /\ (c \in DOMAIN fs /\ c \notin DOMAIN fs') => pc'[p] = "thrown"
     /\ c \notin DOMAIN fs => c \notin DOMAIN fs'

C12_AtomicReplace ==
  /\ [](\A p \in Procs : pc[p] # "idle" => C12_CompleteFile(p))
  /\ [][\A p \in Procs : pc[p] # "idle" => C12_ReplaceStep(p)]_vars

\* An image run whose best candidate has been renamed over the upload.
C12_Witness ==
  \E p \in Procs :
    /\ Cat(p) = "image" /\ pc[p] = "ret"
    /\ lastRename = p
    /\ Stored(p) # upload[p]
    /\ NoTmpLeft(p)

\* The number of times request p has run the tool.
CountTool(p, tool) == Cardinality({i \in 1..Len(calls[p]) : calls[p][i].tool = tool})

(***************************************************************************)
(* C13.  In every run of compressPdf the external tool is invoked exactly   *)
(* once: never a second time, whether the tool failed, its output was not   *)
(* smaller, or the result is still over the budget.                         *)
(***************************************************************************)
C13_GsExactlyOnce ==
  \A p \in Procs :
    Cat(p) = "pdf" =>
      /\ CountTool(p, "gs") <= 1
      /\ CountTool(p, "sharp") = 0
      /\ pc[p] \in {"pdf_hung", "pdf_catch", "pdf_compare", "pdf_budget",
                    "ret", "thrown", "done"} => CountTool(p, "gs") = 1

\* A PDF run that ended over the budget after the tool failed, with the one
\* invocation made.
C13_Witness ==
  \E p \in Procs :
    /\ Cat(p) = "pdf" /\ Raised(p) /\ err[p] = "TooLarge"
    /\ gs[p].kind = "nonzero"
    /\ CountTool(p, "gs") = 1

(***************************************************************************)
(* C14.  Every pipeline run eventually completes, by a returned size or an  *)
(* error: the image ladder runs at most five passes, and a tool invocation  *)
(* that never exits on its own is ended by the timeout and then handled as  *)
(* a tool failure.                                                          *)
(***************************************************************************)
C14_EveryRunCompletes ==
  /\ \A p \in Procs : (pc[p] = "start") ~> Completed(p)
  /\ \A p \in Procs : (pc[p] = "pdf_hung") ~> (pc[p] = "pdf_catch" /\ gs[p].kind = "timeout")
  /\ [](\A p \in Procs : CountTool(p, "sharp") <= NumPasses)

\* A PDF run whose tool hung, was ended by the timeout, and completed.
C14_Witness ==
  \E p \in Procs :
    /\ Cat(p) = "pdf" /\ Completed(p)
    /\ gs[p].kind = "timeout"
    /\ ~existsSync(fs, PdfTmp(filepath[p]))

(***************************************************************************)
(* C15.  classify is total: every extension maps to exactly one of image,   *)
(* pdf, other; .jpg, .jpeg, .png, .webp, .avif in any letter case map to    *)
(* image, .pdf in any letter case to pdf, and every other extension, the    *)
(* empty one included, to other; the category depends on the extension      *)
(* only.                                                                    *)
(***************************************************************************)
ExpectedCategory(ext) ==
  IF \E b \in {DotJpg, DotJpeg, DotPng, DotWebp, DotAvif} : ext \in CaseVariants(b)
  THEN "image"
  ELSE IF ext \in CaseVariants(DotPdf) THEN "pdf" ELSE "other"

\* The branch compress took, read off where the request is.
Branch(p) ==
  CASE pc[p] = "img_encode"  -> "image"
    [] pc[p] = "pdf_gs"      -> "pdf"
    [] pc[p] = "other_check" -> "other"
    [] OTHER                 -> "none"

C15_ClassifyTotal ==
  \A p \in Procs :
    pc[p] \notin {"idle", "start"} =>
      /\ Branch(p) \in {"image", "pdf", "other"}
      /\ Branch(p) = ExpectedCategory(extname(filepath[p]))
      /\ Classify(extname(filepath[p])) = Branch(p)

\* A mixed-case .JpEg dispatched to the image compressor.
C15_Witness ==
  \E p \in Procs :
    /\ extname(filepath[p]) = << ".", "J", "p", "E", "g" >>
    /\ pc[p] = "img_encode"

(***************************************************************************)
(* C16.  When two uploads with the same deterministic name run their        *)
(* pipelines concurrently on the same canonical path, under every           *)
(* interleaving neither pipeline fails or loses its candidate because of    *)
(* the other's temporary files, and the file left at the canonical path is  *)
(* the complete output of the pipeline whose rename came last.              *)
(***************************************************************************)
\* A missing file that the request's own tool explains.
OwnMissingFile(p) == Cat(p) = "pdf" /\ gs[p].kind = "exit0" /\ ~gs[p].wrote

C16_LastWriterWins ==
  /\ \A p \in Procs : (Completed(p) /\ err[p] = "ENOENT") => OwnMissingFile(p)
  /\ \A p \in Procs :
       ((\A q \in Procs : pc[q] = "done") /\ lastRename = p /\ HasFile(p)) =>
         /\ Stored(p).by = p
         /\ Stored(p).src \in {"jpeg", "png", "gs"}
(***************************************************************************)
(* C17.  From the start of a pipeline run on a path until that run signals  *)
(* completion, no other request of the service (another upload written to   *)
(* the same file name, DELETE /files/*, the static file server) reads or    *)
(* mutates the file at that path.                                           *)
(***************************************************************************)
C17_ExclusiveOwnership ==
  \A p \in Procs : Active(p) => foreign[p] = {}

(***************************************************************************)
(* C18.  A file sent through the public /files path is never a temporary    *)
(* candidate, never a partially written file, and, for pdf and other,       *)
(* never over its category budget.                                          *)
(***************************************************************************)
C18_OnlyEnforcedFilesServed ==
  served # NotServed =>
    /\ \A p \in Procs : served.path \notin TmpSiblings(filepath[p])
    /\ served.file.src # "partial"
    /\ \A p \in Procs :
         (served.path = Canon(filepath[p]) /\ Cat(p) \in {"pdf", "other"}) =>
           served.file.size <= Budget(extname(filepath[p]))

(***************************************************************************)
(* C19.  compressImage attempts the rungs one at a time in ladder order; a   *)
(* later rung is attempted only if every earlier candidate was above the     *)
(* image budget, and once a candidate is at or under the budget no later     *)
(* rung is attempted.  An image whose first candidate is within the budget   *)
(* gets exactly one pass.                                                    *)
(***************************************************************************)
\* The first rung whose candidate is within the budget; the last rung if none.
StopRung(p) ==
  IF \E i \in 1..NumPasses : cand[p][i] <= IMAGE_MAX_BYTES
  THEN SetMin({i \in 1..NumPasses : cand[p][i] <= IMAGE_MAX_BYTES})
  ELSE NumPasses

C19_LadderInOrder ==
  \A p \in Procs :
    Cat(p) = "image" =>
      /\ Len(calls[p]) <= NumPasses
      /\ \A j \in 1..Len(calls[p]) : calls[p][j] = SharpCall(passes[j])
      /\ \A j \in 1..Len(calls[p]) : \A i \in 1..(j - 1) :
            cand[p][i] > IMAGE_MAX_BYTES
      /\ pc[p] = "img_encode" => Len(calls[p]) = rung[p] - 1
      /\ pc[p] \in {"img_compare", "img_promote"} => Len(calls[p]) = rung[p]
      /\ Returned(p) => Len(calls[p]) = StopRung(p)
      /\ (Returned(p) /\ cand[p][1] <= IMAGE_MAX_BYTES) => Len(calls[p]) = 1

\* Scenario A: the first candidate is within the budget and the run returned
\* after that single pass, although a later rung would have been smaller.
C19_Witness ==
  \E p \in Procs :
    /\ Cat(p) = "image" /\ Returned(p)
    /\ cand[p][1] = IMAGE_MAX_BYTES
    /\ cand[p][2] < IMAGE_MAX_BYTES
    /\ calls[p] = << SharpCall(passes[1]) >>
(***************************************************************************)
(* C20.  A failure of the encoder at one rung does not abort the pipeline    *)
(* while another option remains: compress raises the encoder's error only    *)
(* when no earlier rung produced a candidate and no later rung is untried.   *)
(***************************************************************************)
C20_PassFailureRecovered ==
  \A p \in Procs :
    (Cat(p) = "image" /\ Raised(p) /\ err[p] = "sharp") =>
      /\ bestTmp[p] = NullPath
      /\ rung[p] = NumPasses
(***************************************************************************)
(* C21.  Abandoned temporaries of the image ladder are deleted immediately: *)
(* after each completed rung exactly one candidate file exists on disk, the *)
(* current best; a candidate that is not strictly smaller than the current  *)
(* best is deleted in the step that compares it, and when a new best is     *)
(* retained the previous best is deleted in that same step.                 *)
(***************************************************************************)
\* The candidate files of request p's image that exist on disk.
Candidates(p) ==
  {t \in DOMAIN fs :
     \E i \in 1..NumPasses : t = QTmp(filepath[p], passes[i].quality)}

\* Request p's loop stands between two rungs, or has just left the loop.
RungCompleted(p) ==
  \/ pc[p] = "img_encode" /\ rung[p] > 1
  \/ pc[p] = "img_promote"

C21_OneCandidate(p) ==
  (Cat(p) = "image" /\ RungCompleted(p)) =>
    /\ bestTmp[p] # NullPath
    /\ Candidates(p) = {bestTmp[p]}
    /\ fs[bestTmp[p]].size = bestSize[p]

C21_CompareStep(p) ==
  (pc[p] = "img_compare" /\ pc'[p] \in {"img_encode", "img_promote"}) =>
    LET out == QTmp(filepath[p], passes[rung[p]].quality)
    IN IF bestSize[p] # Infinity /\ fs[out].size >= bestSize[p]
       THEN /\ out \notin DOMAIN fs'
            /\ bestTmp'[p] = bestTmp[p]
            /\ bestTmp[p] \in DOMAIN fs'
       ELSE /\ out \in DOMAIN fs'
            /\ bestTmp'[p] = out
            /\ bestTmp[p] # NullPath => bestTmp[p] \notin DOMAIN fs'

C21_AbandonedDeletedAtOnce ==
  /\ [](\A p \in Procs : C21_OneCandidate(p))
  /\ [][\A p \in Procs : C21_CompareStep(p)]_vars

\* The loop has ended after all rungs: the second candidate replaced the
\* first as best, and the later ones, none smaller, were discarded.
C21_Witness ==
  \E p \in Procs :
    /\ Cat(p) = "image" /\ pc[p] = "img_promote"
    /\ rung[p] = NumPasses
    /\ bestTmp[p] = QTmp(filepath[p], passes[2].quality)
    /\ cand[p][3] = cand[p][2]
    /\ Candidates(p) = {bestTmp[p]}
(***************************************************************************)
(* C22.  Pipelines running concurrently on two different canonical paths do *)
(* not interfere: every step of a pipeline creates, renames and deletes     *)
(* only its own canonical path and its own temporary siblings, none of      *)
(* which is a path of the other, and each pipeline ends as it would alone:  *)
(* no missing-file error caused by the other, and the file at its path, if  *)
(* any, is its own.                                                         *)
(***************************************************************************)
\* The paths request p's pipeline works on.
OwnPaths(p) == {Canon(filepath[p])} \cup TmpSiblings(filepath[p])

\* The path x is created, deleted or rewritten by the step.
Changed(x) ==
  \/ (x \in DOMAIN fs) # (x \in DOMAIN fs')
  \/ x \in DOMAIN fs /\ x \in DOMAIN fs' /\ fs[x] # fs'[x]

C22_OwnPathsStep(p) ==
  pc'[p] # pc[p] =>
    \A x \in DOMAIN fs \cup DOMAIN fs' :
      Changed(x) =>
        /\ x \in OwnPaths(p)
        /\ \A q \in Procs \ {p} : x \notin OwnPaths(q)

C22_AsAlone(p) ==
  Completed(p) =>
    /\ err[p] = "ENOENT" => OwnMissingFile(p)
    /\ Returned(p) => HasFile(p)
    /\ HasFile(p) => Stored(p).by = p

C22_DifferentPathsIndependent ==
  /\ [](\A p \in Procs : C22_AsAlone(p))
  /\ [][\A p \in Procs : C22_OwnPathsStep(p)]_vars
(***************************************************************************)
(* C23.  Whenever compress returns successfully, the returned value is the  *)
(* byte size of the file stored at the canonical path at that moment, on    *)
(* every success path: image best candidate, PDF replaced, PDF original     *)
(* kept after the tool succeeded or failed, other.                          *)
(***************************************************************************)
C23_ReturnsActualSize ==
  \A p \in Procs :
    Returned(p) =>
      /\ HasFile(p)
      /\ retval[p] = Stored(p).size

\* A PDF run that returned the size of the tool's smaller output, now the
\* stored file.
C23_Witness ==
  \E p \in Procs :
    /\ Cat(p) = "pdf" /\ pc[p] = "ret"
    /\ Stored(p).src = "gs"
    /\ retval[p] = gs[p].size
    /\ retval[p] < upload[p].size
(***************************************************************************)
(* C24.  The image ladder is strictly decreasing in both parameters: of any *)
(* two consecutive rungs, in the ladder and among the passes a run makes,   *)
(* the later has a strictly smaller maximum width and a strictly smaller    *)
(* encoding quality than the earlier.                                       *)
(***************************************************************************)
\* The pairs of consecutive passes request p has made.
ConsecutivePasses(p) ==
  {<< calls[p][i], calls[p][i + 1] >> : i \in 1..(Len(calls[p]) - 1)}

C24_StrictlyDecreasingBoth ==
  \A p \in Procs :
    Cat(p) = "image" =>
      \A pair \in ConsecutivePasses(p) :
        /\ pair[2].width < pair[1].width
        /\ pair[2].quality < pair[1].quality

(***************************************************************************)
(* C24, amended.  Of any two consecutive rungs the later has a strictly     *)
(* smaller encoding quality and a maximum width that is smaller or equal.   *)
(***************************************************************************)
C24_QualityDecreasesWidthNeverGrows ==
  /\ \A i \in 1..(Len(passes) - 1) :
       /\ passes[i + 1].quality < passes[i].quality
       /\ passes[i + 1].width <= passes[i].width
  /\ \A p \in Procs :
       Cat(p) = "image" =>
         \A pair \in ConsecutivePasses(p) :
           /\ pair[2].quality < pair[1].quality
           /\ pair[2].width <= pair[1].width

\* A run that has made all five passes: the first three at the same width,
\* the last two narrower.
C24_Witness ==
  \E p \in Procs :
    /\ Cat(p) = "image"
    /\ Len(calls[p]) = NumPasses
    /\ calls[p][2].width = calls[p][1].width
    /\ calls[p][3].width = calls[p][2].width
    /\ calls[p][5].width < calls[p][4].width
(***************************************************************************)
(* C25.  If the PDF tool exits successfully but no output file exists at    *)
(* the temporary path, compressPdf treats the optimized size as the         *)
(* original size and keeps the original unchanged: it returns the original  *)
(* size when that is within the PDF budget, or deletes the file and fails   *)
(* when it is over, and raises no other error.                              *)
(***************************************************************************)
C25_SuccessWithoutOutput ==
  \A p \in Procs :
    (Cat(p) = "pdf" /\ gs[p].kind = "exit0" /\ ~gs[p].wrote /\ Completed(p)) =>
      IF upload[p].size > PDF_MAX_BYTES
      THEN Raised(p) /\ err[p] = "TooLarge" /\ ~HasFile(p)
      ELSE /\ Returned(p)
           /\ retval[p] = upload[p].size
           /\ HasFile(p)
           /\ Stored(p) = upload[p]
====
